---- MODULE Spec2Model ----
(***************************************************************************)
(* Model of the rufi launcher: the fuzzy ranking functions of fuzzy.rs,    *)
(* the item cache and the executable scan of commands.rs and the redraw /  *)
(* input loop of ui.rs::run_ui with its background refresh threads.        *)
(*                                                                         *)
(* Strings are sequences of one-character strings.  All characters of the  *)
(* model are ASCII, so str::len (a byte count) equals the number of chars. *)
(* Option<T> is modelled as a sequence: None is << >>, Some(x) is <<x>>.   *)
(***************************************************************************)
EXTENDS Integers, Sequences, FiniteSets, TLC

VARIABLES
    pc,           \* position of the primary thread in run_ui
    cfg,          \* the Config handed to run_ui (never assigned by run_ui)
    query,        \* run_ui: query
    sel,          \* run_ui: sel
    start_index,  \* run_ui: start_index
    shift_down,   \* run_ui: shift_down
    filtered,     \* run_ui: filtered, the ranked list of the current cycle
    max_visible,  \* run_ui: max_visible of the current cycle
    cache,        \* the ItemCache behind the Arc<Mutex<..>>
    lock,         \* owner of the Mutex: "free", "main" or a thread id
    threads,      \* the refresh threads spawned so far
    now,          \* the monotonic clock read by Instant::now()
    launched,     \* what the Enter key handed to launch_item
    reported,     \* the launch failure written to stderr, if any
    args,         \* arguments of a call of one of the pure functions
    ret           \* its result

vars == <<pc, cfg, query, sel, start_index, shift_down, filtered, max_visible,
          cache, lock, threads, now, launched, reported, args, ret>>

uivars == <<pc, cfg, query, sel, start_index, shift_down, filtered,
            max_visible, cache, lock, threads, now, launched, reported>>

----------------------------------------------------------------------------
(* Bounds of the model *)

MaxStrLen == 3      \* longest display name / command / target drawn
MaxQueryLen == 2    \* longest query drawn for fuzzy_score
MaxTyped == 1       \* longest query typed
MaxDescLen == 1     \* longest description drawn
MaxItems == 3       \* longest item list handed to fuzzy_search
MaxThreads == 2     \* refresh threads spawned in one run
MaxTime == 2        \* clock ticks in one run
MaxRunLen == 9      \* longest run of one character in a query of SpecPair
MaxDirs == 3        \* directories in the search path
MaxEntries == 1     \* entries in one directory of the search path
MaxTimeout == 8     \* largest of the small timeouts handed to ItemCache::new
U64_MAX == 65535    \* u64::MAX of the model: u64 is scaled to 16 bits

----------------------------------------------------------------------------
(* Option<T> *)

None == << >>

Some(x) == <<x>>

Min(a, b) == IF a < b THEN a ELSE b

Max(a, b) == IF a > b THEN a ELSE b

\* usize::saturating_sub
saturating_sub(a, b) == IF a > b THEN a - b ELSE 0

----------------------------------------------------------------------------
(* Strings *)

LowerChars == {"a", "b"}

\* char::to_lowercase on the characters of the model
char_to_lowercase(c) ==
    CASE c = "A" -> "a"
      [] c = "B" -> "b"
      [] OTHER -> c

\* str::to_lowercase
to_lowercase(s) == [i \in 1..Len(s) |-> char_to_lowercase(s[i])]

\* str::starts_with
starts_with(s, p) == Len(p) <= Len(s) /\ SubSeq(s, 1, Len(p)) = p

\* str::contains
contains(s, p) ==
    \E i \in 0..(Len(s) - Len(p)) : SubSeq(s, i + 1, i + Len(p)) = p

\* all strings over the character set C of length at most n
StrsUpTo(C, n) == UNION {[1..k -> C] : k \in 0..n}

----------------------------------------------------------------------------
(* fuzzy.rs *)

EXACT_MATCH_BONUS == 2000

NAME_STARTS_WITH_BONUS == 1500

COMMAND_STARTS_WITH_BONUS == 1400

NAME_CONTAINS_BONUS == 1000

COMMAND_CONTAINS_BONUS == 900

DESCRIPTION_CONTAINS_BONUS == 600

APPLICATION_TYPE_BONUS == 50

\* the constructor of a LaunchItem (name and icon play no part in ranking or
\* layout; name always equals display_name where the items are built)
LaunchItem(display_name, command, description, item_type) ==
    [display_name |-> display_name, command |-> command,
     description |-> description, item_type |-> item_type]

ItemType == {"Command", "Application"}

\* a loop that adds a flat 10 for every consecutive match
RECURSIVE fuzzy_match_loop_flat(_, _, _, _, _, _, _)
fuzzy_match_loop_flat(q, target, i, qi, score, last_match, consecutive) ==
    IF i >= Len(target) THEN None
    ELSE IF target[i + 1] = q[qi]
    THEN LET gap == i - last_match
             consecutive2 == IF gap = 1 THEN consecutive + 1 ELSE 0
             score2 == IF gap = 1 THEN score + 10 ELSE score - gap
         IN  IF qi < Len(q)
             THEN fuzzy_match_loop_flat(q, target, i + 1, qi + 1, score2, i,
                                        consecutive2)
             ELSE Some(score2)
    ELSE fuzzy_match_loop_flat(q, target, i + 1, qi, score, last_match,
                               consecutive)

\* the loop of fuzzy_match_score from target index i (0-based) on, with
\* current_char = query[qi]
RECURSIVE fuzzy_match_loop(_, _, _, _, _, _, _)
fuzzy_match_loop(q, target, i, qi, score, last_match, consecutive) ==
    IF i >= Len(target) THEN None
    ELSE IF target[i + 1] = q[qi]
    THEN LET gap == i - last_match
             consecutive2 == IF gap = 1 THEN consecutive + 1 ELSE 0
             score2 == IF gap = 1 THEN score + consecutive2 * 10
                       ELSE score - gap
         IN  IF qi < Len(q)
             THEN fuzzy_match_loop(q, target, i + 1, qi + 1, score2, i,
                                   consecutive2)
             ELSE Some(score2)
    ELSE fuzzy_match_loop(q, target, i + 1, qi, score, last_match,
                          consecutive)

\* a match that requires the query to be a prefix of the target
fuzzy_match_score_contiguous(q, target) ==
    IF Len(q) = 0 \/ ~starts_with(target, q) THEN None
    ELSE fuzzy_match_loop(q, target, 0, 1, 200, 0, 0)

fuzzy_match_score(q, target) ==
    IF Len(q) = 0 THEN None
    ELSE fuzzy_match_loop(q, target, 0, 1, 200, 0, 0)

\* a type bonus as large as the distance between the two prefix tiers
APPLICATION_TYPE_BONUS_reordering ==
    NAME_STARTS_WITH_BONUS - COMMAND_STARTS_WITH_BONUS

type_bonus_reordering(item) ==
    IF item.item_type = "Application" THEN APPLICATION_TYPE_BONUS_reordering
    ELSE 0

type_bonus(item) ==
    IF item.item_type = "Application" THEN APPLICATION_TYPE_BONUS ELSE 0

\* a tail that forgets to adjust the match score by the type bonus
best_score_no_bonus(q, name, command, bonus) ==
    LET s1 == fuzzy_match_score(q, name)
        s2 == fuzzy_match_score(q, command)
    IN  IF s2 # None
        THEN IF s1 # None THEN Some(Max(s1[1], s2[1])) ELSE s2
        ELSE s1

\* the tail of fuzzy_score: the best adjusted score over [&name, &command]
best_score(q, name, command, bonus) ==
    LET s1 == fuzzy_match_score(q, name)
        s2 == fuzzy_match_score(q, command)
        b1 == IF s1 # None THEN Some(s1[1] + bonus) ELSE None
    IN  IF s2 # None
        THEN IF b1 # None THEN Some(Max(b1[1], s2[1] + bonus))
             ELSE Some(s2[1] + bonus)
        ELSE b1

\* a cascade that tests the command prefix before the display name prefix
fuzzy_score_command_first(q0, item) ==
    IF Len(q0) = 0 THEN Some(0)
    ELSE
    LET q == to_lowercase(q0)
        name == to_lowercase(item.display_name)
        command == to_lowercase(item.command)
        bonus == type_bonus(item)
    IN  IF name = q \/ command = q
          THEN Some(EXACT_MATCH_BONUS + bonus)
        ELSE IF starts_with(command, q)
          THEN Some(COMMAND_STARTS_WITH_BONUS - Len(q) + bonus)
        ELSE IF starts_with(name, q)
          THEN Some(NAME_STARTS_WITH_BONUS - Len(q) + bonus)
        ELSE IF contains(name, q)
          THEN Some(NAME_CONTAINS_BONUS - Len(q) + bonus)
        ELSE IF contains(command, q)
          THEN Some(COMMAND_CONTAINS_BONUS - Len(q) + bonus)
        ELSE IF item.description # None
                /\ contains(to_lowercase(item.description[1]), q)
          THEN Some(DESCRIPTION_CONTAINS_BONUS - Len(q) + bonus)
        ELSE best_score(q, name, command, bonus)

\* a cascade without the early returns: every tier that matches adds its
\* value
fuzzy_score_additive(q0, item) ==
    IF Len(q0) = 0 THEN Some(0)
    ELSE
    LET q == to_lowercase(q0)
        name == to_lowercase(item.display_name)
        command == to_lowercase(item.command)
        bonus == type_bonus(item)
        desc_hit == item.description # None
                      /\ contains(to_lowercase(item.description[1]), q)
        total ==
            (IF name = q \/ command = q THEN EXACT_MATCH_BONUS ELSE 0)
          + (IF starts_with(name, q) THEN NAME_STARTS_WITH_BONUS - Len(q)
             ELSE 0)
          + (IF starts_with(command, q)
             THEN COMMAND_STARTS_WITH_BONUS - Len(q) ELSE 0)
          + (IF contains(name, q) THEN NAME_CONTAINS_BONUS - Len(q) ELSE 0)
          + (IF contains(command, q) THEN COMMAND_CONTAINS_BONUS - Len(q)
             ELSE 0)
          + (IF desc_hit THEN DESCRIPTION_CONTAINS_BONUS - Len(q) ELSE 0)
    IN  IF contains(name, q) \/ contains(command, q) \/ desc_hit
        THEN Some(total + bonus)
        ELSE best_score(q, name, command, bonus)

fuzzy_score(q0, item) ==
    IF Len(q0) = 0 THEN Some(0)
    ELSE
    LET q == to_lowercase(q0)
        name == to_lowercase(item.display_name)
        command == to_lowercase(item.command)
        bonus == type_bonus(item)
    IN  IF name = q \/ command = q
          THEN Some(EXACT_MATCH_BONUS + bonus)
        ELSE IF starts_with(name, q)
          THEN Some(NAME_STARTS_WITH_BONUS - Len(q) + bonus)
        ELSE IF starts_with(command, q)
          THEN Some(COMMAND_STARTS_WITH_BONUS - Len(q) + bonus)
        ELSE IF contains(name, q)
          THEN Some(NAME_CONTAINS_BONUS - Len(q) + bonus)
        ELSE IF contains(command, q)
          THEN Some(COMMAND_CONTAINS_BONUS - Len(q) + bonus)
        ELSE IF item.description # None
                /\ contains(to_lowercase(item.description[1]), q)
          THEN Some(DESCRIPTION_CONTAINS_BONUS - Len(q) + bonus)
        ELSE best_score(q, name, command, bonus)

\* a map that scores an item without a score 0 instead of dropping it
RECURSIVE map_scored_or_zero(_, _)
map_scored_or_zero(q, items) ==
    IF Len(items) = 0 THEN << >>
    ELSE LET s == fuzzy_score(q, Head(items))
         IN  <<(<<Head(items), IF s # None THEN s[1] ELSE 0>>)>>
                 \o map_scored_or_zero(q, Tail(items))

\* items.iter().filter_map(..).collect(): the pairs (item, score) of the
\* items that have a score, in input order
RECURSIVE filter_map_scored(_, _)
filter_map_scored(q, items) ==
    IF Len(items) = 0 THEN << >>
    ELSE LET s == fuzzy_score(q, Head(items))
             rest == filter_map_scored(q, Tail(items))
         IN  IF s # None THEN <<(<<Head(items), s[1]>>)>> \o rest ELSE rest

\* an insertion that puts e in front of the elements it ties with
RECURSIVE insert_before_ties(_, _)
insert_before_ties(sorted, e) ==
    IF Len(sorted) = 0 THEN <<e>>
    ELSE IF Head(sorted)[2] > e[2]
         THEN <<Head(sorted)>> \o insert_before_ties(Tail(sorted), e)
         ELSE <<e>> \o sorted

\* insertion of the pair e into the descending list sorted, behind every
\* element that does not compare Greater than it
RECURSIVE insert_stable(_, _)
insert_stable(sorted, e) ==
    IF Len(sorted) = 0 THEN <<e>>
    ELSE IF Head(sorted)[2] >= e[2]
         THEN <<Head(sorted)>> \o insert_stable(Tail(sorted), e)
         ELSE <<e>> \o sorted

\* scored.sort_by(|a, b| b.1.cmp(&a.1)): slice::sort_by is a stable sort
RECURSIVE sort_by_score_desc(_)
sort_by_score_desc(scored) ==
    IF Len(scored) = 0 THEN << >>
    ELSE insert_stable(sort_by_score_desc(SubSeq(scored, 1, Len(scored) - 1)),
                       scored[Len(scored)])

\* a truncation that keeps the last n elements
truncate_tail(v, n) == SubSeq(v, Len(v) - Min(n, Len(v)) + 1, Len(v))

\* Vec::truncate
truncate(v, n) == SubSeq(v, 1, Min(n, Len(v)))

\* a ranking that truncates the scored list before it sorts it
fuzzy_search_truncate_first(q, items, max_results) ==
    sort_by_score_desc(truncate(filter_map_scored(q, items), max_results))

fuzzy_search(q, items, max_results) ==
    truncate(sort_by_score_desc(filter_map_scored(q, items)), max_results)

----------------------------------------------------------------------------
(* commands.rs: ItemCache *)

\* a cache that is built with the time of its construction
ItemCache_new_fresh(timeout_secs, t) ==
    [items |-> << >>, last_updated |-> t, timeout |-> timeout_secs]

\* i64::MIN of the model, the earliest second an Instant can hold
I64_MIN == 0 - ((U64_MAX + 1) \div 2)

\* ItemCache::new at clock value t, when it returns; timeout_secs + 1 wraps
\* at the width of u64 where overflow is not checked
ItemCache_new(timeout_secs, t) ==
    [items |-> << >>,
     last_updated |-> t - ((timeout_secs + 1) % (U64_MAX + 1)),
     timeout |-> timeout_secs]

\* what a call of ItemCache::new at clock value t can do: None stands for a
\* panic.  timeout_secs + 1 panics on overflow in a build with overflow
\* checks and wraps in one without; Instant - Duration panics when the
\* result is before the earliest Instant
ItemCache_new_outcomes(timeout_secs, t) ==
    LET checked == IF timeout_secs + 1 > U64_MAX THEN {None} ELSE {}
        c == ItemCache_new(timeout_secs, t)
        unchecked == IF c.last_updated < I64_MIN THEN {None} ELSE {Some(c)}
    IN  IF timeout_secs + 1 > U64_MAX THEN checked \cup unchecked
        ELSE unchecked

\* an expiry test that counts an elapsed time equal to the timeout as expired
is_expired_inclusive(c, t) == (t - c.last_updated) >= c.timeout

\* ItemCache::is_expired at clock value t
is_expired(c, t) == (t - c.last_updated) > c.timeout

\* ItemCache::update at clock value t
update(c, items, t) == [c EXCEPT !.items = items, !.last_updated = t]

\* an update that ignores an empty collection
update_items_skip_empty(c, items) ==
    IF items = << >> THEN c ELSE [c EXCEPT !.items = items]

\* an update that keeps the longer of the old and the new collection
update_items_keep_longer(c, items) ==
    [c EXCEPT !.items = IF Len(c.items) > Len(items) THEN c.items ELSE items]

\* the first statement of ItemCache::update
update_items(c, items) == [c EXCEPT !.items = items]

\* an update that stamps the clock value 0 instead of the current one
update_timestamp_epoch(c, t) == [c EXCEPT !.last_updated = 0]

\* the second statement of ItemCache::update, at clock value t
update_timestamp(c, t) == [c EXCEPT !.last_updated = t]

\* ItemCache::get
get(c) == c.items

----------------------------------------------------------------------------
(* commands.rs: collect_commands *)

\* the byte of an ASCII character of the model
CharCode(c) ==
    CASE c = "." -> 46
      [] c = "A" -> 65
      [] c = "B" -> 66
      [] c = "a" -> 97
      [] c = "b" -> 98
      [] OTHER -> 122

\* a.cmp(b) = Ordering::Less on strings: the byte-wise lexicographic order
StrLess(a, b) ==
    \E k \in 0..Min(Len(a), Len(b)) :
        /\ \A i \in 1..k : a[i] = b[i]
        /\ \/ k = Len(a) /\ k < Len(b)
           \/ k < Len(a) /\ k < Len(b) /\ CharCode(a[k + 1]) < CharCode(b[k + 1])

\* the LaunchItem pushed for the file name
CommandItem(name) == LaunchItem(name, name, None, "Command")

\* a scan that pushes every executable it meets
scan_entry_no_seen(acc, e) ==
    IF e.executable /\ ~starts_with(e.name, <<".">>)
    THEN [items |-> Append(acc.items, CommandItem(e.name)),
          seen |-> acc.seen \cup {e.name}]
    ELSE acc

\* the body of the loop over the entries of a directory, on the pair acc
\* of items and seen
scan_entry(acc, e) ==
    IF e.executable /\ ~starts_with(e.name, <<".">>) /\ e.name \notin acc.seen
    THEN [items |-> Append(acc.items, CommandItem(e.name)),
          seen |-> acc.seen \cup {e.name}]
    ELSE acc

\* "for entry in entries.flatten()"
RECURSIVE scan_dir(_, _)
scan_dir(acc, entries) ==
    IF entries = << >> THEN acc
    ELSE scan_dir(scan_entry(acc, Head(entries)), Tail(entries))

\* "for dir in path_var.split(':')"
RECURSIVE scan_path(_, _)
scan_path(acc, dirs) ==
    IF dirs = << >> THEN acc
    ELSE scan_path(scan_dir(acc, Head(dirs)), Tail(dirs))

\* the item e put into the list sorted, which is in ascending order of name
RECURSIVE insert_by_name(_, _)
insert_by_name(sorted, e) ==
    IF sorted = << >> THEN <<e>>
    ELSE IF StrLess(e.display_name, Head(sorted).display_name)
         THEN <<e>> \o sorted
         ELSE <<Head(sorted)>> \o insert_by_name(Tail(sorted), e)

\* items.sort_unstable_by(|a, b| a.name.cmp(&b.name)); items of one name
\* are equal in every field, so the order among them does not show
RECURSIVE sort_by_name(_)
sort_by_name(items) ==
    IF items = << >> THEN << >>
    ELSE insert_by_name(sort_by_name(Tail(items)), Head(items))

\* collect_commands on the directories of PATH, each the list of its
\* entries in the order read_dir yields them
collect_commands(path) ==
    sort_by_name(scan_path([items |-> << >>, seen |-> {}], path).items)

----------------------------------------------------------------------------
(* The item source: collect_commands() followed by collect_applications() *)

\* what the scans can find, commands sorted by name first, then the
\* applications sorted by display name
SourceItems ==
    << LaunchItem(<<"a", "b">>, <<"a", "b">>, None, "Command"),
       LaunchItem(<<"a">>, <<"b">>, Some(<<"b">>), "Application"),
       LaunchItem(<<"b", "a">>, <<"A">>, Some(<<"a">>), "Application") >>

\* the list the two scans return when exactly the items at the positions
\* present exist
collect_all(present) ==
    LET keep(i) == i \in present
        idx == SelectSeq([i \in 1..Len(SourceItems) |-> i], keep)
    IN  [k \in 1..Len(idx) |-> SourceItems[idx[k]]]

\* the directory contents the scans meet: nothing, the command only,
\* everything
SourcePresent == {{}, {1}, {1, 2, 3}}

Snapshots == {collect_all(present) : present \in SourcePresent}

----------------------------------------------------------------------------
(* config.rs *)

\* Config::default(), the fields run_ui's loop reads
DefaultConfig ==
    [font_size |-> 18, height |-> 500, item_height |-> 64, padding |-> 16,
     max_results |-> 50, show_descriptions |-> TRUE, cache_timeout |-> 300]

\* the configurations of the model: a window in which two rows fit and one
\* too small for any row
Configs ==
    { [DefaultConfig EXCEPT !.height = 280, !.max_results = 3,
                            !.cache_timeout = 1],
      [DefaultConfig EXCEPT !.height = 100, !.max_results = 2,
                            !.cache_timeout = 0] }

----------------------------------------------------------------------------
(* ui.rs: run_ui *)

\* the fallback key map of setup_keyboard_map, on the key codes of the model
KEYCODE_A == 38

keymap == [code \in {KEYCODE_A} |-> <<"a", "A">>]

\* a pass that leaves the selection as the event handlers left it
clamp_sel_none(s, len) == s

\* a clamp of the selection that subtracts without saturating
clamp_sel_unsaturated(s, len) == Min(s, len - 1)

\* sel.min(filtered.len().saturating_sub(1))
clamp_sel(s, len) == Min(s, saturating_sub(len, 1))

\* has_desc of the row of item
has_desc(c, item) ==
    c.show_descriptions /\ item.description # None /\ c.item_height > 24

\* the height of the row of item
item_height_of(c, item) ==
    IF has_desc(c, item) THEN c.item_height + c.font_size + (c.padding \div 2)
    ELSE c.item_height

\* item_heights
item_heights(c, list) == [i \in 1..Len(list) |-> item_height_of(c, list[i][1])]

\* available_display_height
available_display_height(c) ==
    saturating_sub(c.height, (c.item_height + c.padding) + c.padding * 2)

\* a count that passes over a row that does not fit and goes on with the next
RECURSIVE count_visible_skip(_, _, _, _)
count_visible_skip(heights, i, current_display_height, available) ==
    IF i >= Len(heights) THEN 0
    ELSE IF current_display_height + heights[i + 1] <= available
         THEN 1 + count_visible_skip(heights, i + 1,
                                     current_display_height + heights[i + 1],
                                     available)
         ELSE count_visible_skip(heights, i + 1, current_display_height,
                                 available)

\* the loop "for i in start_index..filtered.len()" from the 0-based index i
\* on: the number of further rows that fit
RECURSIVE count_visible(_, _, _, _)
count_visible(heights, i, current_display_height, available) ==
    IF i >= Len(heights) THEN 0
    ELSE IF current_display_height + heights[i + 1] <= available
         THEN 1 + count_visible(heights, i + 1,
                                current_display_height + heights[i + 1],
                                available)
         ELSE 0

\* dynamic_max_visible
dynamic_max_visible(c, list, start) ==
    count_visible(item_heights(c, list), start, 0, available_display_height(c))

\* an adjustment that only ever scrolls down
adjust_start_index_no_retreat(s, start, visible) ==
    IF s >= start + visible THEN s - visible + 1 ELSE start

\* an adjustment that scrolls down one row too far back
adjust_start_index_off_by_one(s, start, visible) ==
    IF s >= start + visible THEN s - visible
    ELSE IF s < start THEN s
    ELSE start

\* "Adjust start_index to keep sel in view"
adjust_start_index(s, start, visible) ==
    IF s >= start + visible THEN s - visible + 1
    ELSE IF s < start THEN s
    ELSE start

\* "Clamp start_index to valid range"
clamp_start_index(start, len, visible) ==
    Min(start, Max(saturating_sub(len, visible), 0))

\* the state of run_ui when it has built the cache and not yet loaded it
UiInit ==
    /\ pc = "load"
    /\ cfg \in Configs
    /\ query = << >>
    /\ sel = 0
    /\ start_index = 0
    /\ shift_down = FALSE
    /\ filtered = << >>
    /\ max_visible = 0
    /\ now = 0
    /\ cache = ItemCache_new(cfg.cache_timeout, now)
    /\ lock = "free"
    /\ threads = << >>
    /\ launched = None
    /\ reported = None

NoCall == [done |-> FALSE, value |-> << >>]

Init ==
    /\ UiInit
    /\ args = << >>
    /\ ret = NoCall

\* a start that enters the loop without the initial load
InitialLoad_skipped ==
    /\ pc = "load"
    /\ pc' = "loop"
    /\ UNCHANGED <<cfg, query, sel, start_index, shift_down, filtered,
                   max_visible, cache, lock, threads, now, launched, reported, args,
                   ret>>

\* "Perform initial load synchronously"
InitialLoad ==
    /\ pc = "load"
    /\ lock = "free"
    /\ \E all_items \in Snapshots : cache' = update(cache, all_items, now)
    /\ pc' = "loop"
    /\ UNCHANGED <<cfg, query, sel, start_index, shift_down, filtered,
                   max_visible, lock, threads, now, launched, reported, args, ret>>

\* a check that spawns no thread while another one is still at work
spawn_if_expired_single_flight(c, t, ths) ==
    IF is_expired(c, t)
       /\ \A i \in 1..Len(ths) : ths[i].state = "done"
    THEN Append(ths, [state |-> "fetching", items |-> << >>])
    ELSE ths

\* "if cache_guard.is_expired() { thread::spawn(...) }": the threads after
\* the check of the cache c at clock value t
spawn_if_expired(c, t, ths) ==
    IF is_expired(c, t)
    THEN Append(ths, [state |-> "fetching", items |-> << >>])
    ELSE ths

\* a pass that drops the guard before it waits for the event
RedrawCycle_releasing ==
    /\ pc = "loop"
    /\ lock = "free"
    /\ is_expired(cache, now) => Len(threads) < MaxThreads
    /\ LET list == fuzzy_search(query, get(cache), cfg.max_results)
           s == clamp_sel(sel, Len(list))
           visible == Max(dynamic_max_visible(cfg, list, start_index), 1)
           start == adjust_start_index(s, start_index, visible)
       IN  /\ filtered' = list
           /\ sel' = s
           /\ max_visible' = visible
           /\ start_index' = clamp_start_index(start, Len(list), visible)
    /\ threads' = spawn_if_expired(cache, now, threads)
    /\ lock' = "free"
    /\ pc' = "wait"
    /\ UNCHANGED <<cfg, query, shift_down, cache, now, launched, reported, args, ret>>

\* one pass of the loop body from cache.lock() to conn.flush(): the expiry
\* check and the spawn, the ranking, the viewport computation and the
\* drawing; the pass then blocks in wait_for_event holding the guard
RedrawCycle ==
    /\ pc = "loop"
    /\ lock = "free"
    /\ is_expired(cache, now) => Len(threads) < MaxThreads
    /\ LET list == fuzzy_search(query, get(cache), cfg.max_results)
           s == clamp_sel(sel, Len(list))
           visible == Max(dynamic_max_visible(cfg, list, start_index), 1)
           start == adjust_start_index(s, start_index, visible)
       IN  /\ filtered' = list
           /\ sel' = s
           /\ max_visible' = visible
           /\ start_index' = clamp_start_index(start, Len(list), visible)
    /\ threads' = spawn_if_expired(cache, now, threads)
    /\ lock' = "main"
    /\ pc' = "wait"
    /\ UNCHANGED <<cfg, query, shift_down, cache, now, launched, reported, args, ret>>

\* the end of a loop pass that does not break: the locals of the loop body
\* (filtered, max_visible and the guard) are dropped
NextPass ==
    /\ pc' = "loop"
    /\ lock' = "free"
    /\ filtered' = << >>
    /\ max_visible' = 0

\* key code 9
KeyEscape ==
    /\ pc = "wait"
    /\ pc' = "exit"
    /\ lock' = "free"
    /\ UNCHANGED <<cfg, query, sel, start_index, shift_down, filtered,
                   max_visible, cache, threads, now, launched, reported, args, ret>>

\* an Enter key that launches the first row of the list
KeyEnter_first_row ==
    /\ pc = "wait"
    /\ launched' = IF 0 < Len(filtered) THEN Some(filtered[1][1]) ELSE None
    /\ \E failed \in BOOLEAN :
          reported' = IF failed /\ launched' # None
                      THEN Some(launched'[1].display_name) ELSE None
    /\ pc' = "exit"
    /\ lock' = "free"
    /\ UNCHANGED <<cfg, query, sel, start_index, shift_down, filtered,
                   max_visible, cache, threads, now, args, ret>>

\* key code 36: filtered.get(sel) is handed to launch_item, whose error is
\* printed to stderr and dropped; the loop breaks and run_ui returns Ok(())
KeyEnter ==
    /\ pc = "wait"
    /\ launched' = IF sel < Len(filtered) THEN Some(filtered[sel + 1][1])
                   ELSE None
    /\ \E failed \in BOOLEAN :
          reported' = IF failed /\ launched' # None
                      THEN Some(launched'[1].display_name) ELSE None
    /\ pc' = "exit"
    /\ lock' = "free"
    /\ UNCHANGED <<cfg, query, sel, start_index, shift_down, filtered,
                   max_visible, cache, threads, now, args, ret>>

\* an Up key that moves the start offset together with the selection
KeyUp_scrolling ==
    /\ pc = "wait"
    /\ sel' = IF sel > 0 THEN sel - 1 ELSE sel
    /\ start_index' = IF start_index > 0 THEN start_index - 1 ELSE start_index
    /\ pc' = "loop"
    /\ lock' = "free"
    /\ filtered' = << >>
    /\ max_visible' = 0
    /\ UNCHANGED <<cfg, query, shift_down, cache, threads, now, launched,
                   reported, args, ret>>

\* key code 111
KeyUp ==
    /\ pc = "wait"
    /\ sel' = IF sel > 0 THEN sel - 1 ELSE sel
    /\ NextPass
    /\ UNCHANGED <<cfg, query, start_index, shift_down, cache, threads, now,
                   launched, reported, args, ret>>

\* a Down key that wraps from the last row to the first
KeyDown_wrapping ==
    /\ pc = "wait"
    /\ sel' = IF Len(filtered) # 0 /\ sel + 1 < Len(filtered) THEN sel + 1
              ELSE 0
    /\ pc' = "loop"
    /\ lock' = "free"
    /\ filtered' = << >>
    /\ max_visible' = 0
    /\ UNCHANGED <<cfg, query, start_index, shift_down, cache, threads, now,
                   launched, reported, args, ret>>

\* key code 116
KeyDown ==
    /\ pc = "wait"
    /\ sel' = IF Len(filtered) # 0 /\ sel + 1 < Len(filtered) THEN sel + 1
              ELSE sel
    /\ NextPass
    /\ UNCHANGED <<cfg, query, start_index, shift_down, cache, threads, now,
                   launched, reported, args, ret>>

\* key code 22; String::pop on an empty string does nothing
KeyBackspace ==
    /\ pc = "wait"
    /\ query' = SubSeq(query, 1, saturating_sub(Len(query), 1))
    /\ sel' = 0
    /\ start_index' = 0
    /\ NextPass
    /\ UNCHANGED <<cfg, shift_down, cache, threads, now, launched, reported, args, ret>>

\* key codes 50 and 62 pressed
KeyShift ==
    /\ pc = "wait"
    /\ shift_down' = TRUE
    /\ NextPass
    /\ UNCHANGED <<cfg, query, sel, start_index, cache, threads, now,
                   launched, reported, args, ret>>

\* any other key code that the key map knows
KeyChar ==
    /\ pc = "wait"
    /\ Len(query) < MaxTyped
    /\ \E code \in DOMAIN keymap :
          LET variations == keymap[code]
              variation_index ==
                  IF shift_down /\ Len(variations) > 1 THEN 1 ELSE 0
          IN  query' = Append(query, variations[variation_index + 1])
    /\ sel' = 0
    /\ NextPass
    /\ UNCHANGED <<cfg, start_index, shift_down, cache, threads, now,
                   launched, reported, args, ret>>

\* key codes 50 and 62 released
ShiftRelease ==
    /\ pc = "wait"
    /\ shift_down' = FALSE
    /\ NextPass
    /\ UNCHANGED <<cfg, query, sel, start_index, cache, threads, now,
                   launched, reported, args, ret>>

\* a key the key map does not know, the release of another key, or an event
\* that is not a key event
OtherEvent ==
    /\ pc = "wait"
    /\ NextPass
    /\ UNCHANGED <<cfg, query, sel, start_index, shift_down, cache, threads,
                   now, launched, reported, args, ret>>

\* a refresh thread that takes the lock for its fetch
Fetch_locked(t) ==
    /\ threads[t].state = "fetching"
    /\ lock = "free"
    /\ lock' = "thread"
    /\ \E new_items \in Snapshots :
          threads' = [threads EXCEPT ![t] = [state |-> "fetched",
                                             items |-> new_items]]
    /\ UNCHANGED <<pc, cfg, query, sel, start_index, shift_down, filtered,
                   max_visible, cache, now, launched, reported, args, ret>>

\* a refresh thread finishes collect_commands() and collect_applications()
Fetch(t) ==
    /\ threads[t].state = "fetching"
    /\ \E new_items \in Snapshots :
          threads' = [threads EXCEPT ![t] = [state |-> "fetched",
                                             items |-> new_items]]
    /\ UNCHANGED <<pc, cfg, query, sel, start_index, shift_down, filtered,
                   max_visible, cache, lock, now, launched, reported, args, ret>>

\* a refresh thread that writes the items without taking the lock
CommitBegin_unlocked(t) ==
    /\ threads[t].state = "fetched"
    /\ cache' = update_items(cache, threads[t].items)
    /\ threads' = [threads EXCEPT ![t].state = "writing"]
    /\ UNCHANGED <<pc, cfg, query, sel, start_index, shift_down, filtered,
                   max_visible, lock, now, launched, reported, args, ret>>

\* a refresh thread gets the lock and guard.update(new_items) stores the
\* items
CommitBegin(t) ==
    /\ threads[t].state = "fetched"
    /\ lock = "free"
    /\ lock' = "thread"
    /\ cache' = update_items(cache, threads[t].items)
    /\ threads' = [threads EXCEPT ![t].state = "writing"]
    /\ UNCHANGED <<pc, cfg, query, sel, start_index, shift_down, filtered,
                   max_visible, now, launched, reported, args, ret>>

\* guard.update(new_items) stores the time, the guard is dropped and the
\* thread ends
CommitEnd(t) ==
    /\ threads[t].state = "writing"
    /\ cache' = update_timestamp(cache, now)
    /\ lock' = "free"
    /\ threads' = [threads EXCEPT ![t] = [state |-> "done", items |-> << >>]]
    /\ UNCHANGED <<pc, cfg, query, sel, start_index, shift_down, filtered,
                   max_visible, now, launched, reported, args, ret>>

\* time passes
Tick ==
    /\ now < MaxTime
    /\ now' = now + 1
    /\ UNCHANGED <<pc, cfg, query, sel, start_index, shift_down, filtered,
                   max_visible, cache, lock, threads, launched, reported, args, ret>>

Next ==
    \/ InitialLoad
    \/ RedrawCycle
    \/ KeyEscape
    \/ KeyEnter
    \/ KeyUp
    \/ KeyDown
    \/ KeyBackspace
    \/ KeyShift
    \/ KeyChar
    \/ ShiftRelease
    \/ OtherEvent
    \/ \E t \in 1..Len(threads) : Fetch(t)
    \/ \E t \in 1..Len(threads) : CommitBegin(t)
    \/ \E t \in 1..Len(threads) : CommitEnd(t)
    \/ Tick

Spec == Init /\ [][Next]_vars

\* the start of a pass of the loop: within Next the steps from "loop" to
\* "wait" are the steps of RedrawCycle, and a pass can start exactly when
\* the guard of RedrawCycle holds
PassStarts ==
    /\ pc = "loop"
    /\ lock = "free"
    /\ is_expired(cache, now) => Len(threads) < MaxThreads
    /\ pc' = "wait"

\* an input event that does not end the loop
InputEvent ==
    \/ KeyUp
    \/ KeyDown
    \/ KeyBackspace
    \/ KeyShift
    \/ KeyChar
    \/ ShiftRelease
    \/ OtherEvent

\* a step of the refresh thread t
ThreadStep(t) ==
    /\ t \in 1..Len(threads)
    /\ Fetch(t) \/ CommitBegin(t) \/ CommitEnd(t)

\* run_ui under a scheduler that lets every thread that can run take its
\* next step, with input events that keep arriving: the loop starts its next
\* pass, wait_for_event returns, and a refresh thread that is able to take
\* a step takes it
SpecLive ==
    /\ Init
    /\ [][Next]_vars
    /\ WF_vars(InitialLoad)
    /\ WF_pc(PassStarts)
    /\ WF_vars(InputEvent)
    /\ \A t \in 1..MaxThreads : WF_vars(ThreadStep(t))

----------------------------------------------------------------------------
(* The ranking functions on their own: the arguments are drawn by the      *)
(* initial state and one action applies the function.  The variables of    *)
(* run_ui stay parked.                                                     *)

UiParked ==
    /\ pc = "off"
    /\ cfg = DefaultConfig
    /\ query = << >>
    /\ sel = 0
    /\ start_index = 0
    /\ shift_down = FALSE
    /\ filtered = << >>
    /\ max_visible = 0
    /\ now = 0
    /\ cache = ItemCache_new(cfg.cache_timeout, now)
    /\ lock = "free"
    /\ threads = << >>
    /\ launched = None
    /\ reported = None

firefox == <<"f", "i", "r", "e", "f", "o", "x">>

chrome == <<"c", "h", "r", "o", "m", "e">>

code == <<"c", "o", "d", "e">>

QuerySet ==
    StrsUpTo(LowerChars, MaxQueryLen)
        \cup {<<"A">>, <<"A", "b">>, <<"f", "i", "r", "e">>, <<"f", "x">>,
              code}

NameSet ==
    StrsUpTo(LowerChars, MaxStrLen)
        \cup {<<"A", "b">>, <<"b", "a", "b", "a">>, firefox, chrome, code}

CommandSet ==
    StrsUpTo(LowerChars, MaxStrLen - 1)
        \cup {<<"a", "b", "a">>, <<"B", "a">>, firefox, code}

DescriptionSet ==
    {None} \cup {Some(d) : d \in StrsUpTo(LowerChars, MaxDescLen)
                                   \cup {<<"A">>}}

(* fuzzy_match_score *)

InitMatch ==
    /\ UiParked
    /\ args \in [q : StrsUpTo(LowerChars, MaxStrLen) \cup {<<"f", "x">>},
                 target : StrsUpTo(LowerChars, MaxStrLen)
                              \cup {firefox, chrome}]
    /\ ret = NoCall

CallFuzzyMatchScore ==
    /\ ~ret.done
    /\ ret' = [done |-> TRUE, value |-> fuzzy_match_score(args.q, args.target)]
    /\ UNCHANGED <<uivars, args>>

NextMatch == CallFuzzyMatchScore

SpecMatch == InitMatch /\ [][NextMatch]_vars

(* fuzzy_score *)

InitScore ==
    /\ UiParked
    /\ args \in [q : QuerySet,
                 item : {LaunchItem(n, c, d, t) :
                            n \in NameSet, c \in CommandSet,
                            d \in DescriptionSet, t \in ItemType}]
    /\ ret = NoCall

CallFuzzyScore ==
    /\ ~ret.done
    /\ ret' = [done |-> TRUE, value |-> fuzzy_score(args.q, args.item)]
    /\ UNCHANGED <<uivars, args>>

NextScore == CallFuzzyScore

SpecScore == InitScore /\ [][NextScore]_vars

(* fuzzy_search *)

\* the items the lists handed to fuzzy_search are made of
RankItems ==
    {LaunchItem(n, c, None, "Command") :
        n \in {<<"a", "b">>, <<"a", "b", "a">>}, c \in {<<"a">>, <<"b", "b">>}}
      \cup {LaunchItem(<<"a", "b">>, <<"a">>, None, "Application"),
            LaunchItem(<<"b">>, <<"b">>, Some(<<"a">>), "Command")}

InitRank ==
    /\ UiParked
    /\ args \in [q : {<< >>, <<"a">>, <<"A", "b">>, <<"a", "a">>, <<"b", "a">>},
                 items : StrsUpTo(RankItems, MaxItems),
                 max_results : 0..MaxItems]
    /\ ret = NoCall

CallFuzzySearch ==
    /\ ~ret.done
    /\ ret' = [done |-> TRUE,
               value |-> fuzzy_search(args.q, args.items, args.max_results)]
    /\ UNCHANGED <<uivars, args>>

NextRank == CallFuzzySearch

SpecRank == InitRank /\ [][NextRank]_vars

(* fuzzy_score on two items and one query *)

\* the string of k characters c
Run(c, k) == [i \in 1..k |-> c]

\* the queries a..ab
PairQueries == {Run("a", k) \o <<"b">> : k \in 0..MaxRunLen}

\* display names z..za..az..zb: a run of a's after at most one other
\* character, and a b after at most one more
PairNames ==
    {Run("z", s) \o Run("a", j) \o Run("z", g) \o <<"b">> :
        s \in 0..1, j \in 0..MaxRunLen, g \in 0..1}

PairItems == {LaunchItem(n, <<"z">>, None, t) : n \in PairNames, t \in ItemType}

\* the strings a..ab and a..abz: for each query the query itself, strings
\* it is a prefix of and strings it is inside of
PairTargets ==
    {Run("a", j) \o <<"b">> \o Run("z", e) : j \in 0..MaxRunLen, e \in 0..1}

\* items that meet a query in their display name, in their command or in
\* their description only
PairRivals ==
    {LaunchItem(n, <<"z">>, None, t) : n \in PairTargets, t \in ItemType}
      \cup {LaunchItem(<<"z">>, c, None, t) : c \in PairTargets, t \in ItemType}
      \cup {LaunchItem(<<"z">>, <<"z">>,
                        Some(Run("a", MaxRunLen) \o <<"b">>), t) :
                t \in ItemType}

InitPair ==
    /\ UiParked
    /\ args \in [q : PairQueries, item : PairItems \cup PairRivals,
                 rival : PairRivals]
    /\ ret = NoCall

\* the closure of filter_map scores two items of one list with the query
CallFuzzyScorePair ==
    /\ ~ret.done
    /\ ret' = [done |-> TRUE,
               value |-> <<fuzzy_score(args.q, args.item),
                           fuzzy_score(args.q, args.rival)>>]
    /\ UNCHANGED <<uivars, args>>

NextPair == CallFuzzyScorePair

SpecPair == InitPair /\ [][NextPair]_vars

(* collect_commands *)

\* the directory entries of the model: executables a, b and .a, and a file
\* a that is not executable
ScanEntries ==
    {[name |-> n, executable |-> TRUE] : n \in {<<"a">>, <<"b">>, <<".", "a">>}}
      \cup {[name |-> <<"a">>, executable |-> FALSE]}

InitScan ==
    /\ UiParked
    /\ args \in [path : StrsUpTo(StrsUpTo(ScanEntries, MaxEntries), MaxDirs)]
    /\ ret = NoCall

CallCollectCommands ==
    /\ ~ret.done
    /\ ret' = [done |-> TRUE, value |-> collect_commands(args.path)]
    /\ UNCHANGED <<uivars, args>>

NextScan == CallCollectCommands

SpecScan == InitScan /\ [][NextScan]_vars

(* ItemCache::new *)

\* the timeouts of the model: small ones, and the ones around the middle
\* and the end of the range of u64
TimeoutSet ==
    0..MaxTimeout
      \cup {U64_MAX \div 2, U64_MAX \div 2 + 1, U64_MAX - 1, U64_MAX}

InitNew ==
    /\ UiParked
    /\ args \in [timeout_secs : TimeoutSet]
    /\ ret = NoCall

CallItemCacheNew ==
    /\ ~ret.done
    /\ \E outcome \in ItemCache_new_outcomes(args.timeout_secs, now) :
          ret' = [done |-> TRUE, value |-> outcome]
    /\ UNCHANGED <<uivars, args>>

NextNew == CallItemCacheNew \/ Tick

SpecNew == InitNew /\ [][NextNew]_vars

----------------------------------------------------------------------------
(* Properties of the ranking functions *)

\* q is an ordered, not necessarily contiguous, subsequence of t
IsSubsequence(q, t) ==
    \E f \in [1..Len(q) -> 1..Len(t)] :
        /\ \A i \in 1..Len(q) : t[f[i]] = q[i]
        /\ \A i \in 1..Len(q), j \in 1..Len(q) : i < j => f[i] < f[j]

\* the conditions of the tiers 1..7 of a lowercased query q against the
\* lowercased display name n, command c and description d of an item
TierApplies(k, q, n, c, d) ==
    CASE k = 1 -> n = q \/ c = q
      [] k = 2 -> starts_with(n, q)
      [] k = 3 -> starts_with(c, q)
      [] k = 4 -> contains(n, q)
      [] k = 5 -> contains(c, q)
      [] k = 6 -> d # None /\ contains(d[1], q)
      [] k = 7 -> IsSubsequence(q, n) \/ IsSubsequence(q, c)

\* the value of the fuzzy tier without the type bonus: the larger of the
\* match scores of the targets that match
FuzzyTierBase(q, n, c) ==
    LET scores == {fuzzy_match_score(q, t)[1] :
                      t \in {t \in {n, c} : IsSubsequence(q, t)}}
    IN  CHOOSE s \in scores : \A s2 \in scores : s2 <= s

\* the value of tier k for a query of length L and type bonus b
TierValue(k, q, n, c, b) ==
    CASE k = 1 -> 2000 + b
      [] k = 2 -> 1500 - Len(q) + b
      [] k = 3 -> 1400 - Len(q) + b
      [] k = 4 -> 1000 - Len(q) + b
      [] k = 5 -> 900 - Len(q) + b
      [] k = 6 -> 600 - Len(q) + b
      [] k = 7 -> FuzzyTierBase(q, n, c) + b

LowerDescription(item) ==
    IF item.description = None THEN None
    ELSE Some(to_lowercase(item.description[1]))

\* the tiers that apply to the pair (query, item)
ApplicableTiers(q0, item) ==
    {k \in 1..7 : TierApplies(k, to_lowercase(q0),
                              to_lowercase(item.display_name),
                              to_lowercase(item.command),
                              LowerDescription(item))}

Bonus(item) == IF item.item_type = "Application" THEN 50 ELSE 0

\* C10: fuzzy_match_score(query, target) returns a score if and only if the
\* query is not empty and is an ordered subsequence of the target; "fx"
\* matches "firefox" and does not match "chrome".
C10_MatchIffSubsequence ==
    ret.done =>
        /\ (ret.value # None) <=>
               (Len(args.q) > 0 /\ IsSubsequence(args.q, args.target))
        /\ (args.q = <<"f", "x">> /\ args.target = firefox) => ret.value # None
        /\ (args.q = <<"f", "x">> /\ args.target = chrome) => ret.value = None

C10_Witness ==
    /\ ret.done
    /\ args.q = <<"f", "x">>
    /\ args.target = firefox
    /\ ret.value # None

\* C5: for a non-empty query the score of an item is the value of the first
\* tier that matches, in the order exact (2000+b), display name prefix
\* (1500-L+b), command prefix (1400-L+b), display name substring (1000-L+b),
\* command substring (900-L+b), description substring (600-L+b), and
\* otherwise that of the fuzzy tier; "fire" against the Command "firefox"
\* scores 1496.
C5_TierCascade ==
    (ret.done /\ Len(args.q) > 0) =>
        LET q == to_lowercase(args.q)
            L == Len(q)
            b == Bonus(args.item)
            n == to_lowercase(args.item.display_name)
            c == to_lowercase(args.item.command)
            d == LowerDescription(args.item)
        IN  /\ ret.value =
                 IF n = q \/ c = q THEN Some(2000 + b)
                 ELSE IF starts_with(n, q) THEN Some(1500 - L + b)
                 ELSE IF starts_with(c, q) THEN Some(1400 - L + b)
                 ELSE IF contains(n, q) THEN Some(1000 - L + b)
                 ELSE IF contains(c, q) THEN Some(900 - L + b)
                 ELSE IF d # None /\ contains(d[1], q) THEN Some(600 - L + b)
                 ELSE IF IsSubsequence(q, n) \/ IsSubsequence(q, c)
                      THEN Some(FuzzyTierBase(q, n, c) + b)
                 ELSE None
            /\ (/\ args.q = <<"f", "i", "r", "e">>
                /\ args.item.display_name = firefox
                /\ args.item.command = firefox
                /\ args.item.item_type = "Command") => ret.value = Some(1496)

C5_Witness ==
    /\ ret.done
    /\ args.q = <<"f", "i", "r", "e">>
    /\ args.item.display_name = firefox
    /\ args.item.command = firefox
    /\ args.item.item_type = "Command"
    /\ ret.value = Some(1496)

\* C6: when several tiers apply to one (query, item) pair, the score is
\* exactly the value of the earliest of them; nothing of a later tier is
\* added.
C6_ShortCircuit ==
    (ret.done /\ Len(args.q) > 0) =>
        LET A == ApplicableTiers(args.q, args.item)
            first == CHOOSE k \in A : \A k2 \in A : k <= k2
        IN  A # {} =>
              ret.value = Some(TierValue(first, to_lowercase(args.q),
                                         to_lowercase(args.item.display_name),
                                         to_lowercase(args.item.command),
                                         Bonus(args.item)))

C6_Witness ==
    /\ ret.done
    /\ Len(args.q) > 0
    /\ {2, 5, 6, 7} \subseteq ApplicableTiers(args.q, args.item)
    /\ 1 \notin ApplicableTiers(args.q, args.item)
    /\ ret.value = Some(1500 - Len(args.q) + Bonus(args.item))

\* the item with the other kind
OtherKind(item) ==
    [item EXCEPT !.item_type = IF @ = "Application" THEN "Command"
                               ELSE "Application"]

\* C8: for a non-empty query, in every tier, the fuzzy tier included, two
\* items that differ only in kind either both have no score or score exactly
\* 50 apart, the Application higher; on an exact match of "code" the scores
\* are 2050 and 2000.
C8_TypeBonus ==
    (ret.done /\ Len(args.q) > 0) =>
        LET other == fuzzy_score(args.q, OtherKind(args.item))
            app == IF args.item.item_type = "Application" THEN ret.value
                   ELSE other
            cmd == IF args.item.item_type = "Application" THEN other
                   ELSE ret.value
        IN  /\ (app = None) <=> (cmd = None)
            /\ app # None => app[1] = cmd[1] + 50
            /\ (args.q = code /\ args.item.display_name = code) =>
                   (app = Some(2050) /\ cmd = Some(2000))

C8_Witness ==
    /\ ret.done
    /\ Len(args.q) > 0
    /\ args.item.item_type = "Application"
    /\ ApplicableTiers(args.q, args.item) = {7}
    /\ ret.value # None
    /\ fuzzy_score(args.q, OtherKind(args.item)) = Some(ret.value[1] - 50)

\* the positions of items that have a score for the query q
Matching(q, items) == {i \in 1..Len(items) : fuzzy_score(q, items[i]) # None}

\* position i comes before position j in the ranking: it scores higher, or
\* the same and comes first in the input
RanksBefore(q, items, i, j) ==
    LET si == fuzzy_score(q, items[i])[1]
        sj == fuzzy_score(q, items[j])[1]
    IN  si > sj \/ (si = sj /\ i < j)

\* the position of the input that belongs at place k of the full ranking
PositionAt(q, items, k) ==
    CHOOSE i \in Matching(q, items) :
        Cardinality({j \in Matching(q, items) : RanksBefore(q, items, j, i)})
            = k - 1

\* C4: fuzzy_search(query, items, limit) returns at most limit pairs with
\* non-increasing scores; it is exactly the first limit elements of the
\* list of all matching items ordered by descending score with equal scores
\* in input order.
C4_StableTopK ==
    ret.done =>
        LET r == ret.value
            n == Min(args.max_results,
                     Cardinality(Matching(args.q, args.items)))
        IN  /\ Len(r) <= args.max_results
            /\ \A k \in 1..(Len(r) - 1) : r[k][2] >= r[k + 1][2]
            /\ Len(r) = n
            /\ \A k \in 1..n :
                  LET i == PositionAt(args.q, args.items, k)
                  IN  r[k] = <<args.items[i],
                               fuzzy_score(args.q, args.items[i])[1]>>

C4_Witness ==
    /\ ret.done
    /\ Len(args.q) > 0
    /\ Len(ret.value) = 2
    /\ Cardinality(Matching(args.q, args.items)) = 3
    /\ ret.value[1][2] = ret.value[2][2]
    /\ ret.value[1][1] # ret.value[2][1]
    /\ fuzzy_score(args.q, args.items[1])[1] < ret.value[1][2]

\* C7: with an empty query fuzzy_search returns the first max_results items
\* of the list, each with score 0, in the order of the list.
C7_EmptyQuery ==
    (ret.done /\ args.q = << >>) =>
        ret.value = [i \in 1..Min(args.max_results, Len(args.items)) |->
                        <<args.items[i], 0>>]

C7_Witness ==
    /\ ret.done
    /\ args.q = << >>
    /\ Len(args.items) = 3
    /\ args.max_results = 2
    /\ args.items[1] # args.items[2]
    /\ args.items[3] # args.items[2]
    /\ ret.value = <<(<<args.items[1], 0>>), (<<args.items[2], 0>>)>>

\* how often the item v occurs in a list of items
Occurrences(v, items) == Cardinality({i \in 1..Len(items) : items[i] = v})

\* how often the item v occurs in a list of (item, score) pairs
OccurrencesScored(v, r) == Cardinality({i \in 1..Len(r) : r[i][1] = v})

\* C9: for a non-empty query an item that matches no tier never appears in
\* the result, no item appears more often than in the input, and when the
\* limit does not truncate, every occurrence of an item that matches some
\* tier appears.
C9_MatchingOnly ==
    (ret.done /\ Len(args.q) > 0) =>
        \A v \in RankItems :
            LET inResult == OccurrencesScored(v, ret.value)
                inInput == Occurrences(v, args.items)
            IN  /\ inResult <= inInput
                /\ ApplicableTiers(args.q, v) = {} => inResult = 0
                /\ (ApplicableTiers(args.q, v) # {}
                      /\ args.max_results >= Len(args.items))
                     => inResult = inInput

C9_Witness ==
    /\ ret.done
    /\ Len(args.q) > 0
    /\ args.max_results >= Len(args.items)
    /\ \E i \in 1..Len(args.items) :
          /\ ApplicableTiers(args.q, args.items[i]) = {}
          /\ OccurrencesScored(args.items[i], ret.value) = 0
    /\ \E i \in 1..Len(args.items) :
          /\ ApplicableTiers(args.q, args.items[i]) = {7}
          /\ OccurrencesScored(args.items[i], ret.value) = 1

\* the permutations of 1..n
PermutationsOf(n) ==
    {p \in [1..n -> 1..n] : \A i \in 1..n, j \in 1..n : i # j => p[i] # p[j]}

\* the exchanges of two positions of a list of n items, and the identity;
\* every permutation is a sequence of exchanges
ExchangesUpTo ==
    [n \in 0..MaxItems |->
        {p \in PermutationsOf(n) :
            Cardinality({i \in 1..n : p[i] # i}) <= 2}]

\* the scores of a list of (item, score) pairs
ScoresOf(r) == [i \in 1..Len(r) |-> r[i][2]]

\* the items of a list of (item, score) pairs
ItemsOf(r) == [i \in 1..Len(r) |-> r[i][1]]

\* the position that belongs at place k of the ranking of a list whose
\* scores are sc (None for an item without a score)
PlaceOf(sc, k) ==
    LET M == {i \in DOMAIN sc : sc[i] # None}
    IN  CHOOSE i \in M :
            Cardinality({j \in M : \/ sc[j][1] > sc[i][1]
                                   \/ (sc[j][1] = sc[i][1] /\ j < i)}) = k - 1

\* C13: ranking the items of a result again with the same query and limit
\* returns the same result; ranking any permutation of the input returns the
\* same sequence of scores, the items of equal score in the order of the
\* permuted input.  Every list being an input, it is enough that this holds
\* for every input and every exchange of two of its items.
C13_IdempotentPermutation ==
    ret.done =>
        /\ fuzzy_search(args.q, ItemsOf(ret.value), args.max_results)
               = ret.value
        /\ LET sc0 == [i \in 1..Len(args.items) |->
                          fuzzy_score(args.q, args.items[i])]
           IN  \A p \in ExchangesUpTo[Len(args.items)] :
                  LET permuted == [i \in 1..Len(args.items) |->
                                      args.items[p[i]]]
                      sc == [i \in 1..Len(args.items) |-> sc0[p[i]]]
                      rp == fuzzy_search(args.q, permuted, args.max_results)
                  IN  /\ ScoresOf(rp) = ScoresOf(ret.value)
                      /\ \A k \in 1..Len(rp) :
                            rp[k] = <<permuted[PlaceOf(sc, k)],
                                      sc[PlaceOf(sc, k)][1]>>

C13_Witness ==
    /\ ret.done
    /\ args.q = <<"a">>
    /\ Len(args.items) = 3
    /\ args.max_results = 2
    /\ ScoresOf(ret.value) = <<1499, 1499>>
    /\ ret.value[1][1] # ret.value[2][1]
    /\ fuzzy_score(args.q, args.items[1]) = Some(599)
    /\ fuzzy_search(args.q, <<args.items[3], args.items[2], args.items[1]>>,
                    args.max_results)
           = <<ret.value[2], ret.value[1]>>

\* the target position (1-based) of the k-th query character when every
\* query character is matched at the leftmost possible position
RECURSIVE LeftmostPos(_, _, _)
LeftmostPos(q, t, k) ==
    LET prev == IF k = 1 THEN 0 ELSE LeftmostPos(q, t, k - 1)
        cand == {p \in (prev + 1)..Len(t) : t[p] = q[k]}
    IN  CHOOSE p \in cand : \A p2 \in cand : p <= p2

RECURSIVE SumOver(_, _)
SumOver(f, k) == IF k = 0 THEN 0 ELSE f[k] + SumOver(f, k - 1)

\* the score the rule gives a query q that is a subsequence of t: 200 plus,
\* per matched character, 10 * run length on an index gap of 1 and minus the
\* gap otherwise; the index before the first match counts as 0
ExpectedMatchScore(q, t) ==
    LET idx == [k \in 1..Len(q) |-> LeftmostPos(q, t, k) - 1]
        gap == [k \in 1..Len(q) |->
                   idx[k] - (IF k = 1 THEN 0 ELSE idx[k - 1])]
        run == [k \in 1..Len(q) |->
                   Cardinality({j \in 1..k : \A m \in j..k : gap[m] = 1})]
        contribution == [k \in 1..Len(q) |->
                            IF gap[k] = 1 THEN 10 * run[k] ELSE 0 - gap[k]]
    IN  200 + SumOver(contribution, Len(q))

\* C11: the score of a successful subsequence match is 200 plus, for each
\* query character matched at its leftmost position, 10 * run length when the
\* index gap to the previous match is 1 and minus the gap (run reset)
\* otherwise; when display name and command both match, the fuzzy-tier score
\* of the item is the larger of the two plus the type bonus.
C11_FuzzyScoreValue ==
    (ret.done /\ Len(args.q) > 0) =>
        LET q == to_lowercase(args.q)
            n == to_lowercase(args.item.display_name)
            c == to_lowercase(args.item.command)
        IN  /\ \A t \in {n, c} :
                  IsSubsequence(q, t) =>
                      fuzzy_match_score(q, t) = Some(ExpectedMatchScore(q, t))
            /\ (/\ ApplicableTiers(args.q, args.item) = {7}
                /\ IsSubsequence(q, n)
                /\ IsSubsequence(q, c))
               => ret.value = Some(Max(ExpectedMatchScore(q, n),
                                       ExpectedMatchScore(q, c))
                                   + Bonus(args.item))

C11_Witness ==
    /\ ret.done
    /\ ApplicableTiers(args.q, args.item) = {7}
    /\ args.item.item_type = "Application"
    /\ args.q = <<"a", "a">>
    /\ args.item.display_name = <<"b", "a", "b", "a">>
    /\ args.item.command = <<"a", "b", "a">>
    /\ fuzzy_match_score(args.q, args.item.command) = Some(198)
    /\ ret.value = Some(258)

----------------------------------------------------------------------------
(* Properties of the viewport and of the event handlers of run_ui *)

\* the sum of the heights of the rows from..to (0-based, inclusive)
RECURSIVE SumHeights(_, _, _)
SumHeights(heights, from, to) ==
    IF from > to THEN 0
    ELSE heights[from + 1] + SumHeights(heights, from + 1, to)

\* C1: at every render, 0 <= startOffset <= selection, selection <
\* startOffset + visibleCount and startOffset <= max(0, len - visibleCount);
\* with an empty ranked list selection = startOffset = 0.
C1_ViewportInvariant ==
    pc = "wait" =>
        /\ 0 <= start_index
        /\ start_index <= sel
        /\ sel < start_index + max_visible
        /\ start_index <= Max(0, Len(filtered) - max_visible)
        /\ Len(filtered) = 0 => (sel = 0 /\ start_index = 0)

C1_Witness ==
    /\ pc = "wait"
    /\ Len(filtered) = 3
    /\ max_visible = 2
    /\ start_index = 1
    /\ sel = 2
    /\ \E t \in 1..Len(threads) : threads[t].state = "done"

\* C2: after every viewport computation the rows startOffset..selection
\* together are no higher than the display budget, whenever the selected row
\* alone fits.
C2_SelectedRowFits ==
    (/\ pc = "wait"
     /\ sel < Len(filtered)
     /\ item_height_of(cfg, filtered[sel + 1][1])
            <= available_display_height(cfg))
    => SumHeights(item_heights(cfg, filtered), start_index, sel)
           <= available_display_height(cfg)

\* C3: every query text mutation, appending a character and deleting the
\* last one alike, leaves selection = 0 and startOffset = 0.
C3_QueryMutationResets ==
    [][(KeyChar \/ KeyBackspace) => (sel' = 0 /\ start_index' = 0)]_vars

\* the number of rows from the 0-based index start on that fit in budget one
\* after the other: every shorter run of rows fits, and the run ends with
\* the list or before the first row that does not fit
RowsThatFit(heights, start, budget) ==
    CHOOSE n \in 0..Max(0, Len(heights) - start) :
        /\ \A m \in 0..n : SumHeights(heights, start, start + m - 1) <= budget
        /\ \/ start + n >= Len(heights)
           \/ SumHeights(heights, start, start + n) > budget

\* C14: visibleCount is the number of rows, in list order from the current
\* startOffset on, whose accumulated height stays within the display budget,
\* the accumulation stopping at the first row that does not fit; it is at
\* least 1 even when the first row exceeds the budget or there is no row at
\* startOffset.
C14_VisibleCount ==
    [][RedrawCycle =>
          max_visible' = Max(1, RowsThatFit(item_heights(cfg, filtered'),
                                            start_index,
                                            available_display_height(cfg)))]_vars

C14_Witness ==
    /\ pc = "wait"
    /\ Len(filtered) = 2
    /\ sel = 0
    /\ start_index = 0
    /\ item_heights(cfg, filtered)[1] > available_display_height(cfg)
    /\ max_visible = 1

\* the start offset the viewport computation of one pass leaves for the row
\* heights, the selection s, the start offset start and the budget given
ViewportStart(heights, s, start, budget) ==
    LET visible == Max(count_visible(heights, start, 0, budget), 1)
    IN  clamp_start_index(adjust_start_index(s, start, visible),
                          Len(heights), visible)

\* C15: in the viewport computation the start offset becomes
\* selection - visibleCount + 1 when selection >= startOffset + visibleCount,
\* becomes selection when selection < startOffset, and is otherwise unchanged,
\* before the final clamp to max(0, len - visibleCount).  With row heights
\* [10,10,10,10], budget 25 and start offset 0, selecting index 3 gives start
\* offset 2, and selecting index 0 afterwards gives start offset 0.
C15_AdjustStartOffset ==
    [][RedrawCycle =>
          /\ LET adjusted ==
                     IF sel' >= start_index + max_visible'
                     THEN sel' - max_visible' + 1
                     ELSE IF sel' < start_index THEN sel'
                     ELSE start_index
             IN  start_index' =
                     Min(adjusted, Max(0, Len(filtered') - max_visible'))
          /\ ViewportStart(<<10, 10, 10, 10>>, 3, 0, 25) = 2
          /\ ViewportStart(<<10, 10, 10, 10>>, 0, 2, 25) = 0]_vars

C15_Witness ==
    /\ pc = "wait"
    /\ Len(filtered) = 3
    /\ max_visible = 1
    /\ start_index = 2
    /\ sel = 2
    /\ available_display_height(cfg) >= item_heights(cfg, filtered)[3]

\* C16: ranking and viewport computation are total on degenerate inputs: with
\* an empty item collection, an empty query or a selection beyond the ranked
\* list the pass completes, the result list is empty or the selection is
\* clamped into [0, len - 1], and the selection is 0 when the list is empty.
C16_TotalOnDegenerateInputs ==
    [][RedrawCycle =>
          /\ pc' = "wait"
          /\ get(cache) = << >> => filtered' = << >>
          /\ query = << >> =>
                 Len(filtered') = Min(Len(get(cache)), cfg.max_results)
          /\ Len(filtered') = 0 => (sel' = 0 /\ start_index' = 0)
          /\ Len(filtered') > 0 =>
                 /\ sel' \in 0..(Len(filtered') - 1)
                 /\ sel' = (IF sel >= Len(filtered') THEN Len(filtered') - 1
                            ELSE sel)]_vars

C16_Witness ==
    /\ pc = "wait"
    /\ query = << >>
    /\ get(cache) = << >>
    /\ filtered = << >>
    /\ sel = 0
    /\ start_index = 0
    /\ max_visible = 1
    /\ \E t \in 1..Len(threads) : threads[t].state = "done"

\* C17: selection movement never wraps: Down increments the selection only
\* when selection + 1 < len and is otherwise a no-op, Up decrements it only
\* when selection > 0 and is otherwise a no-op, and after either the
\* selection is in [0, max(0, len - 1)], len the length of the ranked list
\* on display.
C17_NoWrap ==
    [][/\ KeyDown => sel' = (IF sel + 1 < Len(filtered) THEN sel + 1 ELSE sel)
       /\ KeyUp => sel' = (IF sel > 0 THEN sel - 1 ELSE sel)
       /\ (KeyDown \/ KeyUp) =>
              /\ sel' \in 0..Max(0, Len(filtered) - 1)
              /\ sel' - sel \in {-1, 0, 1}]_vars

C17_Witness ==
    /\ pc = "loop"
    /\ query = << >>
    /\ Len(get(cache)) = 3
    /\ sel = 2
    /\ start_index = 1

\* C29: the first matched query character never receives the run bonus,
\* whatever target index it is found at: the score of a query of one
\* character, which has no previous match, never exceeds the seed 200.
C29_FirstMatchNoBonus ==
    (ret.done /\ Len(args.q) = 1 /\ ret.value # None) => ret.value[1] <= 200

----------------------------------------------------------------------------
(* The cache *)

\* a step that completes an ItemCache::update
UpdateCompletes ==
    InitialLoad \/ \E t \in 1..Len(threads) : CommitEnd(t)

\* C18: a cache reports expired from its construction until its first
\* update, reports not expired right after an update, and reports expired
\* again once more than the configured duration has passed since the update.
C18_FreshnessLifecycle ==
    /\ [](pc = "load" => is_expired(cache, now))
    /\ [][UpdateCompletes => ~is_expired(cache', now')]_vars
    /\ []((pc # "load" /\ now - cache.last_updated > cfg.cache_timeout)
              => is_expired(cache, now))

C18_Witness ==
    /\ pc = "wait"
    /\ cfg.cache_timeout = 1
    /\ cache.last_updated = 0
    /\ now = 2
    /\ is_expired(cache, now)
    /\ \E t \in 1..Len(threads) : threads[t].state = "fetching"

\* C19: in every state of the cache, is_expired() is true exactly when
\* now - lastUpdated > staleAfter; an elapsed time equal to the threshold is
\* not expired.
C19_ExpiredIffStrictlyOlder ==
    is_expired(cache, now) <=> (now - cache.last_updated > cfg.cache_timeout)

C19_Witness ==
    /\ pc = "wait"
    /\ cfg.cache_timeout = 1
    /\ now - cache.last_updated = cfg.cache_timeout
    /\ ~is_expired(cache, now)
    /\ threads = << >>

\* C20: a commit replaces the items together with the time stamp as one
\* unit: a thread that finishes its update leaves exactly its own items
\* with the time of the update, no two threads write at once, no pass of the
\* render loop reads the cache while a thread is between the two writes, and
\* the cache does not change while a pass holds the list it ranked.
C20_AtomicCommit ==
    [][/\ \A t \in 1..Len(threads) :
             /\ CommitEnd(t) =>
                    /\ get(cache') = threads[t].items
                    /\ cache'.last_updated = now
             /\ CommitBegin(t) =>
                    /\ pc # "wait"
                    /\ \A u \in 1..Len(threads) :
                          threads[u].state # "writing"
       /\ RedrawCycle =>
             /\ \A t \in 1..Len(threads) : threads[t].state # "writing"
             /\ filtered' = fuzzy_search(query, get(cache), cfg.max_results)
       /\ pc = "wait" =>
             /\ cache' = cache
             /\ filtered = fuzzy_search(query, get(cache), cfg.max_results)
      ]_vars

C20_Witness ==
    /\ pc = "wait"
    /\ lock = "main"
    /\ cache.last_updated > 0
    /\ Len(filtered) > 0
    /\ filtered = fuzzy_search(query, get(cache), cfg.max_results)
    /\ \E t \in 1..Len(threads) : threads[t].state = "done"
    /\ \E u \in 1..Len(threads) :
          threads[u].state = "fetched" /\ threads[u].items # get(cache)

----------------------------------------------------------------------------
(* The refresh threads *)

\* the number of refresh threads in state st
InState(st) == Cardinality({t \in 1..Len(threads) : threads[t].state = st})

\* C21: a refresh never blocks the render loop on the fetch: a thread holds
\* the cache lock only between the two writes of its commit, a fetch changes
\* neither the lock nor the cache, and the lock is free for a pass of the
\* loop to start, reading the snapshot last committed, whatever the number
\* of fetches in progress.
C21_FetchOutsideLock ==
    [][/\ lock = "thread" => InState("writing") = 1
       /\ \A t \in 1..Len(threads) :
             Fetch(t) => (lock' = lock /\ cache' = cache /\ pc' = pc)
       /\ (pc = "loop" /\ InState("writing") = 0) => lock = "free"
       /\ (RedrawCycle /\ InState("fetching") > 0) =>
             filtered' = fuzzy_search(query, get(cache), cfg.max_results)
      ]_vars

C21_Witness ==
    /\ pc = "wait"
    /\ InState("fetching") = 2
    /\ Len(filtered) = 3
    /\ filtered = fuzzy_search(query, get(cache), cfg.max_results)

\* C22: a refresh whose fetch has completed is able to commit while the loop
\* is blocked waiting for the next input event: the lock its commit needs is
\* free then.
C22_CommitWhileLoopWaits ==
    (pc = "wait" /\ InState("fetched") > 0) => lock = "free"

\* C23: overlapping refreshes are last-writer-wins: whichever thread commits,
\* in whatever order the threads were started, the cache then holds exactly
\* the collection that thread fetched, with the time of that commit, and
\* reports itself fresh; nothing but a commit changes the cache.
C23_LastWriterWins ==
    [][/\ \A t \in 1..Len(threads) :
             /\ CommitBegin(t) => get(cache') = threads[t].items
             /\ CommitEnd(t) =>
                    /\ cache' = [items |-> threads[t].items,
                                 last_updated |-> now,
                                 timeout |-> cfg.cache_timeout]
                    /\ ~is_expired(cache', now')
       /\ cache' # cache =>
             \/ InitialLoad
             \/ \E t \in 1..Len(threads) : CommitBegin(t) \/ CommitEnd(t)
      ]_vars

C23_Witness ==
    /\ Len(threads) = 2
    /\ threads[2].state = "done"
    /\ threads[1].state = "writing"
    /\ get(cache) = threads[1].items
    /\ Len(get(cache)) = 1
    /\ cache.last_updated > 0

\* C24: a pass of the loop triggers exactly one new refresh when the cache is
\* expired, earlier refreshes in flight or not, and none when it is not; it
\* ranks the snapshot committed at that moment and leaves the cache alone.
C24_RefreshPolicy ==
    [][RedrawCycle =>
          /\ (now - cache.last_updated > cfg.cache_timeout) =>
                 /\ Len(threads') = Len(threads) + 1
                 /\ SubSeq(threads', 1, Len(threads)) = threads
                 /\ threads'[Len(threads')].state = "fetching"
          /\ ~(now - cache.last_updated > cfg.cache_timeout) =>
                 threads' = threads
          /\ filtered' = fuzzy_search(query, get(cache), cfg.max_results)
          /\ cache' = cache]_vars

C24_Witness ==
    /\ pc = "wait"
    /\ Len(threads) = 2
    /\ threads[1].state = "fetched"
    /\ threads[2].state = "fetching"
    /\ is_expired(cache, now)

\* C25: the first render never uses the empty initial snapshot: one
\* synchronous load is committed with update() before the first pass of the
\* loop reads the cache, so every pass reads a cache that has been updated,
\* and a pass before which no refresh was ever triggered ranks the result of
\* that load.
C25_LoadBeforeFirstRender ==
    [][/\ InitialLoad =>
             /\ pc = "load"
             /\ cache.last_updated < 0
             /\ get(cache') \in Snapshots
             /\ cache'.last_updated = now
       /\ RedrawCycle =>
             /\ pc # "load"
             /\ cache.last_updated >= 0
       /\ (RedrawCycle /\ threads = << >>) =>
             /\ get(cache) \in Snapshots
             /\ filtered' = fuzzy_search(query, get(cache), cfg.max_results)
      ]_vars

C25_Witness ==
    /\ pc = "wait"
    /\ threads = << >>
    /\ now = 0
    /\ cache.last_updated = 0
    /\ query = << >>
    /\ Len(filtered) = 3

\* C26: the very first pass of the loop finds the cache expired and
\* schedules a background refresh, in addition to the initial load.  A pass
\* that starts with no thread ever spawned is the first one if that holds,
\* so every such pass finds the cache expired and spawns a thread.
C26_FirstCycleSchedulesRefresh ==
    [][(RedrawCycle /\ threads = << >>) =>
          /\ is_expired(cache, now)
          /\ Len(threads') = 1
          /\ threads'[1].state = "fetching"]_vars

\* C27: a refresh that fetched an empty collection is committed like any
\* other: the snapshot becomes empty, lastUpdated is the time of the commit
\* and the cache is not expired; the commit changes nothing of the render
\* loop, and a pass that reads the empty snapshot triggers a refresh only
\* when the staleness threshold has passed again.
C27_EmptyFetchCommitted ==
    [][/\ \A t \in 1..Len(threads) :
             (CommitEnd(t) /\ threads[t].items = << >>) =>
                 /\ get(cache') = << >>
                 /\ cache'.last_updated = now
                 /\ ~is_expired(cache', now')
                 /\ threads'[t].state = "done"
                 /\ UNCHANGED <<pc, query, sel, start_index, filtered,
                                launched>>
       /\ (RedrawCycle /\ get(cache) = << >>) =>
             /\ filtered' = << >>
             /\ pc' = "wait"
             /\ (threads' # threads) <=>
                    (now - cache.last_updated > cfg.cache_timeout)
      ]_vars

C27_Witness ==
    /\ pc = "wait"
    /\ get(cache) = << >>
    /\ filtered = << >>
    /\ cache.last_updated > 0
    /\ ~is_expired(cache, now)
    /\ Len(threads) = 1
    /\ threads[1].state = "done"

\* C28: every triggered refresh eventually commits: unless the loop ends,
\* each refresh thread that was spawned eventually finishes its update.
C28_EveryRefreshCommits ==
    \/ <>(pc = "exit")
    \/ \A t \in 1..MaxThreads :
          (Len(threads) >= t)
              ~> (Len(threads) >= t /\ threads[t].state = "done")

\* C30: the snapshot cannot change inside a pass of the loop: no thread
\* begins or ends a commit between the expiry check of a pass and the end of
\* the handling of the event that ends it, so the list that was rendered is
\* the ranking of the snapshot still in the cache, and the item the Enter key
\* launches is the one at the selection in that list.
C30_SnapshotFixedInsidePass ==
    [][/\ pc = "wait" =>
             /\ \A t \in 1..Len(threads) :
                   ~CommitBegin(t) /\ ~CommitEnd(t)
             /\ get(cache') = get(cache)
       /\ KeyEnter =>
             LET list == fuzzy_search(query, get(cache), cfg.max_results)
             IN  /\ filtered = list
                 /\ launched' = IF sel < Len(list) THEN Some(list[sel + 1][1])
                                 ELSE None
      ]_vars

C30_Witness ==
    /\ pc = "exit"
    /\ query = << >>
    /\ sel = 1
    /\ launched = Some(SourceItems[2])
    /\ get(cache) = SourceItems
    /\ \E t \in 1..Len(threads) :
          threads[t].state = "fetched" /\ threads[t].items = << >>

----------------------------------------------------------------------------
(* Further properties of run_ui, of the ranking and of the cache *)

\* C31: the render loop ends on Escape and on Enter and on no other key: on
\* Enter the item launched is exactly the item at index selection of the
\* ranked list rendered in that cycle; with an empty ranked list nothing is
\* launched; a launch failure is reported and absorbed, and the loop still
\* ends with success.
C31_EndsOnEscapeAndEnter ==
    [][/\ (pc # "exit" /\ pc' = "exit") => (KeyEscape \/ KeyEnter)
       /\ (KeyEscape \/ KeyEnter) => pc' = "exit"
       /\ InputEvent => pc' = "loop"
       /\ KeyEscape => launched' = None /\ reported' = None
       /\ KeyEnter =>
             /\ filtered = << >> => launched' = None /\ reported' = None
             /\ filtered # << >> =>
                   /\ sel < Len(filtered)
                   /\ launched' = Some(filtered[sel + 1][1])
                   /\ reported' \in {None, Some(filtered[sel + 1][1].display_name)}
      ]_vars

C31_Witness ==
    /\ pc = "exit"
    /\ sel = 1
    /\ launched = Some(SourceItems[2])
    /\ reported = Some(SourceItems[2].display_name)

\* "filtered.iter().enumerate().skip(start_index).take(max_visible)": the
\* number of rows the drawing loop draws
RowsDrawn ==
    Min(max_visible, saturating_sub(Len(filtered), start_index))

\* C32: at every render of a list that is not empty, the number of rows
\* drawn equals the number of rows that greedily fit in the display budget
\* starting from the final start offset, or 1 if none fits.
C32_RowsDrawnFitFromFinalStart ==
    (pc = "wait" /\ filtered # << >>) =>
        RowsDrawn = Max(1, RowsThatFit(item_heights(cfg, filtered),
                                       start_index,
                                       available_display_height(cfg)))

\* the first of the tiers 1..6 that applies to the pair (query, item), or 0
\* when none of them does
FirstTier(q0, item) ==
    LET q == to_lowercase(q0)
        n == to_lowercase(item.display_name)
        c == to_lowercase(item.command)
        d == LowerDescription(item)
    IN  IF TierApplies(1, q, n, c, d) THEN 1
        ELSE IF TierApplies(2, q, n, c, d) THEN 2
        ELSE IF TierApplies(3, q, n, c, d) THEN 3
        ELSE IF TierApplies(4, q, n, c, d) THEN 4
        ELSE IF TierApplies(5, q, n, c, d) THEN 5
        ELSE IF TierApplies(6, q, n, c, d) THEN 6
        ELSE 0

\* C33: for one query, across different items and whatever their kinds, an
\* item scored by an earlier tier among exact, name-prefix, command-prefix,
\* name-substring, command-substring and description scores strictly higher
\* than an item scored by a later one of these tiers: the type bonus of 50
\* never reorders these tiers.
C33_TypeBonusKeepsTierOrder ==
    ret.done =>
        LET k1 == FirstTier(args.q, args.item)
            k2 == FirstTier(args.q, args.rival)
        IN  (k1 \in 1..6 /\ k2 \in 1..6) =>
               /\ k1 < k2 => ret.value[1][1] > ret.value[2][1]
               /\ k2 < k1 => ret.value[2][1] > ret.value[1][1]

C33_Witness ==
    /\ ret.done
    /\ Len(args.q) = 3
    /\ args.item.item_type = "Command"
    /\ FirstTier(args.q, args.item) = 2
    /\ args.rival.item_type = "Application"
    /\ FirstTier(args.q, args.rival) = 3
    /\ ret.value[1] = Some(1497)
    /\ ret.value[2] = Some(1447)

\* C34: for one query, every item scored by the fuzzy subsequence tier
\* scores strictly lower than every item scored by one of the other tiers,
\* in particular lower than a description match, for every query length.
C34_FuzzyBelowOtherTiers ==
    ret.done =>
        ((/\ FirstTier(args.q, args.item) = 0
          /\ ret.value[1] # None
          /\ FirstTier(args.q, args.rival) \in 1..6)
         => ret.value[1][1] < ret.value[2][1])

\* the row indices the drawing loop visits: max_visible indices from
\* start_index on, limited by the list
DrawnRows ==
    {i \in start_index..(start_index + max_visible - 1) : i < Len(filtered)}

\* C35: the index arithmetic of the viewport never goes below zero or out
\* of range, after any sequence of key events and cache commits: a pass
\* evaluates sel - max_visible + 1 only when sel >= max_visible, the
\* selection and the start offset it leaves are not negative, every row index
\* drawn is an index of the ranked list, and the selected row of a list that
\* is not empty is one of them.
C35_IndexArithmeticInRange ==
    /\ [][RedrawCycle =>
             /\ start_index >= 0
             /\ (sel' >= start_index + max_visible') => sel' - max_visible' >= 0
          ]_vars
    /\ [](pc = "wait" =>
             /\ sel >= 0
             /\ start_index >= 0
             /\ start_index <= Len(filtered)
             /\ \A i \in DrawnRows : i \in 0..(Len(filtered) - 1)
             /\ filtered # << >> => sel \in DrawnRows)

C35_Witness ==
    /\ pc = "wait"
    /\ cfg.height = 280
    /\ Len(get(cache)) = 3
    /\ query = << >>
    /\ sel = 2
    /\ max_visible = 2
    /\ start_index = sel - max_visible + 1
    /\ DrawnRows = {1, 2}
    /\ InState("done") > 0

\* a step of ItemCache::update: the initial load, or one of the two writes
\* of the commit of a refresh thread
UpdateStep ==
    \/ InitialLoad
    \/ \E t \in 1..Len(threads) : CommitBegin(t) \/ CommitEnd(t)

\* C36: between two updates is_expired() is monotone in time: once it is
\* true it stays true until update() is called; update() is the only
\* operation that changes last_updated or the snapshot, last_updated never
\* decreases, and the timeout never changes after construction.
C36_ExpiryMonotone ==
    [][/\ (is_expired(cache, now) /\ ~UpdateStep) => is_expired(cache', now')
       /\ (cache' # cache) => UpdateStep
       /\ cache'.last_updated >= cache.last_updated
       /\ cache'.timeout = cache.timeout
       /\ cache'.timeout = cfg.cache_timeout
      ]_vars

C36_Witness ==
    /\ pc = "wait"
    /\ InState("done") > 0
    /\ cache.last_updated = 1
    /\ now = 2
    /\ is_expired(cache, now)
    /\ is_expired(cache, now - 1) = FALSE

\* C37: frame conditions of the event handlers: the Up and the Down key
\* change only the selection and leave the query, the start offset and the
\* cache unchanged; a mutation of the query leaves the cache unchanged; and
\* the pass of the loop, with its ranking, is_expired() and get(), modifies
\* neither the snapshot nor the timestamp of the cache.
C37_HandlerFrames ==
    [][/\ (KeyUp \/ KeyDown) =>
             UNCHANGED <<query, start_index, shift_down, cache, threads,
                         launched, reported, cfg, now>>
       /\ (KeyChar \/ KeyBackspace) =>
             UNCHANGED <<cache, shift_down, threads, launched, reported, cfg,
                         now>>
       /\ RedrawCycle =>
             /\ get(cache') = get(cache)
             /\ cache'.last_updated = cache.last_updated
             /\ cache'.timeout = cache.timeout
             /\ UNCHANGED <<query, shift_down>>
      ]_vars

C37_Witness ==
    /\ pc = "loop"
    /\ Len(query) = 1
    /\ sel = 1
    /\ start_index = 1
    /\ Len(get(cache)) = 3
    /\ cache.last_updated = 1

\* the entries of all directories of path
AllEntries(path) ==
    UNION {{path[d][k] : k \in 1..Len(path[d])} : d \in 1..Len(path)}

\* the names of the executables of path that do not start with a dot
ExecutableNames(path) ==
    {e.name : e \in {x \in AllEntries(path) :
                          x.executable /\ Head(x.name) # "."}}

\* C38: the executable scan returns items whose names are pairwise
\* distinct: a file name found in several directories of the search path
\* yields one item, names that start with '.' are never included, and the
\* list returned is sorted ascending by name.
C38_ScanDistinctSorted ==
    ret.done =>
        LET r == ret.value
        IN  /\ \A i \in 1..Len(r), j \in 1..Len(r) :
                   i < j => /\ r[i].display_name # r[j].display_name
                            /\ StrLess(r[i].display_name, r[j].display_name)
            /\ \A i \in 1..Len(r) :
                   /\ Head(r[i].display_name) # "."
                   /\ r[i] = CommandItem(r[i].display_name)
            /\ {r[i].display_name : i \in 1..Len(r)}
                   = ExecutableNames(args.path)
            /\ Len(r) = Cardinality(ExecutableNames(args.path))

C38_Witness ==
    /\ ret.done
    /\ Len(args.path) = 3
    /\ args.path[1] = <<[name |-> <<"b">>, executable |-> TRUE]>>
    /\ args.path[2] = <<[name |-> <<"a">>, executable |-> TRUE]>>
    /\ args.path[3] = <<[name |-> <<"a">>, executable |-> TRUE]>>
    /\ ret.value = <<CommandItem(<<"a">>), CommandItem(<<"b">>)>>

\* C39: for every timeout in the full range of u64, 0 and the maximum
\* included, ItemCache::new completes and returns a cache for which
\* is_expired() is true: timeout_secs + 1 neither overflows nor wraps into a
\* cache that is not expired.
C39_NewExpiredForEveryTimeout ==
    ret.done => (ret.value # None /\ is_expired(ret.value[1], now))

====
